---- MODULE Spec2Model ----
(***************************************************************************)
(* State-machine model of get_timelapse.py: the FTP listing parser, the    *)
(* video/thumbnail reconciliation, the per-file pipeline of                *)
(* download_and_process (download, duration probe, remote delete,          *)
(* thumbnail delete, transcode, publish, local cleanup) and the            *)
(* single-shot / watch driver of main.                                     *)
(*                                                                         *)
(* Text is modelled as a sequence of atoms (an atom is a run of characters *)
(* that holds neither whitespace nor a dot, or a single "." or " ").  A    *)
(* listing line is the sequence of its whitespace-delimited tokens.        *)
(***************************************************************************)
EXTENDS Integers, Sequences, FiniteSets, TLC

\* ------------------------------------------------------------- bounds
\* Number of cycles the watch loop is followed for.
MaxCycles == 2
\* Largest number of files in the device's video directory at start.
MaxVideos == 2

\* ------------------------------------------------------- text helpers
\* Python's None, and the ValueError int() raises, as values of their own
None == [tag |-> "None"]
ValueError == [tag |-> "ValueError"]

Digits == {"0", "1", "2", "3", "4", "5", "6", "7", "8", "9"}

DigitVal(c) ==
  CASE c = "0" -> 0 [] c = "1" -> 1 [] c = "2" -> 2 [] c = "3" -> 3
    [] c = "4" -> 4 [] c = "5" -> 5 [] c = "6" -> 6 [] c = "7" -> 7
    [] c = "8" -> 8 [] c = "9" -> 9

\* int(token) succeeds on a non-empty run of decimal digits
IsInt(tok) == Len(tok) > 0 /\ \A i \in 1..Len(tok) : tok[i] \in Digits

RECURSIVE IntVal(_)
IntVal(tok) ==
  IF Len(tok) = 0 THEN 0
  ELSE 10 * IntVal(SubSeq(tok, 1, Len(tok) - 1)) + DigitVal(tok[Len(tok)])

\* the tokens from..Len(line) joined by single blanks
RECURSIVE JoinFrom(_, _)
JoinFrom(line, from) ==
  IF from > Len(line) THEN <<>>
  ELSE IF from = Len(line) THEN line[from]
  ELSE line[from] \o <<" ">> \o JoinFrom(line, from + 1)

\* line.split(maxsplit=8): at most 9 parts, the 9th absorbing the rest
Split8(line) ==
  IF Len(line) <= 9 THEN line
  ELSE SubSeq(line, 1, 8) \o <<JoinFrom(line, 9)>>

\* parse_ftp_listing: None for a short line, the ValueError of int() for a
\* non-integer links, size or day field, else the entry
parse_ftp_listing(line) ==
  LET parts == Split8(line) IN
  IF Len(parts) < 9 THEN None
  ELSE IF ~IsInt(parts[2]) \/ ~IsInt(parts[5]) \/ ~IsInt(parts[7]) THEN ValueError
  ELSE [permissions  |-> parts[1],
        links        |-> IntVal(parts[2]),
        owner        |-> parts[3],
        group        |-> parts[4],
        size         |-> IntVal(parts[5]),
        month        |-> parts[6],
        day          |-> IntVal(parts[7]),
        time_or_year |-> parts[8],
        name         |-> parts[9]]

\* position of the last "." of a name, 0 when it has none
RECURSIVE LastDot(_, _)
LastDot(name, i) ==
  IF i = 0 THEN 0
  ELSE IF name[i] = "." THEN i
  ELSE LastDot(name, i - 1)

\* filename.rsplit('.', 1)[0]
get_base_name(filename) ==
  LET d == LastDot(filename, Len(filename)) IN
  IF d = 0 THEN filename ELSE SubSeq(filename, 1, d - 1)

\* ------------------------------------------------------------ parse_date
\* datetime.now(): the model's clock stands at 15 June of CurrentYear, 12:00
CurrentYear == 2026
NowMonth == 6
NowDay == 15
NowHour == 12
NowMinute == 0

\* a datetime as a number that orders as datetimes do
Stamp(y, mo, d, h, mi) == ((((y - 2000) * 12 + mo) * 31 + d) * 24 + h) * 60 + mi

Now == Stamp(CurrentYear, NowMonth, NowDay, NowHour, NowMinute)

\* datetime.min as a sort key: below every Stamp
DatetimeMin == 0

MonthNames == <<"Jan", "Feb", "Mar", "Apr", "May", "Jun",
                "Jul", "Aug", "Sep", "Oct", "Nov", "Dec">>

\* %b: the month number of a one-atom token, 0 when it is no month name
MonthNum(tok) ==
  IF Len(tok) = 1 /\ \E m \in 1..12 : MonthNames[m] = tok[1]
  THEN CHOOSE m \in 1..12 : MonthNames[m] = tok[1]
  ELSE 0

IsLeap(y) == (y % 4 = 0 /\ y % 100 # 0) \/ y % 400 = 0

DaysIn(y, mo) ==
  IF mo = 2 THEN (IF IsLeap(y) THEN 29 ELSE 28)
  ELSE IF mo \in {4, 6, 9, 11} THEN 30 ELSE 31

\* position of the first ":" of a token, 0 when it has none
RECURSIVE FirstColon(_, _)
FirstColon(tok, i) ==
  IF i > Len(tok) THEN 0
  ELSE IF tok[i] = ":" THEN i
  ELSE FirstColon(tok, i + 1)

\* %H:%M: one or two digits, a colon, one or two digits, within range
TimeOk(tok) ==
  LET c == FirstColon(tok, 1)
      h == SubSeq(tok, 1, c - 1)
      m == SubSeq(tok, c + 1, Len(tok))
  IN  /\ c > 0
      /\ IsInt(h) /\ Len(h) <= 2 /\ IntVal(h) <= 23
      /\ IsInt(m) /\ Len(m) <= 2 /\ IntVal(m) <= 59

\* datetime.strptime(f"{year} {month} {day} {time_or_year}", "%Y %b %d %H:%M"),
\* None for the ValueError
Strptime(year, item) ==
  LET mo == MonthNum(item.month)
      c  == FirstColon(item.time_or_year, 1)
  IN  IF mo = 0 \/ item.day < 1 \/ item.day > 31 \/ ~TimeOk(item.time_or_year)
         \/ item.day > DaysIn(year, mo)
      THEN None
      ELSE [stamp |-> Stamp(year, mo, item.day,
                            IntVal(SubSeq(item.time_or_year, 1, c - 1)),
                            IntVal(SubSeq(item.time_or_year, c + 1,
                                          Len(item.time_or_year))))]

\* parse_date: this year's date, last year's when that lies in the future
parse_date(item) ==
  LET p == Strptime(CurrentYear, item) IN
  IF p = None THEN None
  ELSE IF p.stamp > Now THEN Strptime(CurrentYear - 1, item)
  ELSE p

\* the sort key of line 270: parse_date(x) or datetime.min
SortKey(item) ==
  LET p == parse_date(item) IN IF p = None THEN DatetimeMin ELSE p.stamp

\* list.sort(key, reverse=True): descending and stable
RECURSIVE InsertDesc(_, _)
InsertDesc(sorted, x) ==
  IF Len(sorted) = 0 THEN <<x>>
  ELSE IF SortKey(sorted[Len(sorted)]) >= SortKey(x) THEN Append(sorted, x)
  ELSE Append(InsertDesc(SubSeq(sorted, 1, Len(sorted) - 1), x), sorted[Len(sorted)])

\* a sort that leaves the list in listing order
SortDesc_unsorted(s) == s

RECURSIVE SortDesc(_)
SortDesc(s) ==
  IF Len(s) = 0 THEN <<>>
  ELSE InsertDesc(SortDesc(SubSeq(s, 1, Len(s) - 1)), s[Len(s)])

\* ------------------------------------------------------- reconciliation
\* [parse_ftp_listing(line) for line in lines if parse_ftp_listing(line)]:
\* raised is TRUE when some line's parse raised, and then no list is built
RECURSIVE ParseListing(_)
ParseListing(lines) ==
  IF Len(lines) = 0 THEN [raised |-> FALSE, items |-> <<>>]
  ELSE LET rest == ParseListing(SubSeq(lines, 1, Len(lines) - 1))
           p    == parse_ftp_listing(lines[Len(lines)])
       IN  IF rest.raised \/ p = ValueError THEN [raised |-> TRUE, items |-> <<>>]
           ELSE IF p = None THEN rest
           ELSE [raised |-> FALSE, items |-> Append(rest.items, p)]

\* which entry a BaseName keeps in the dict comprehension of line 262:
\* a later entry with the same key replaces the value
DictKeeps(list, i) ==
  \A j \in (i + 1)..Len(list) :
     get_base_name(list[j].name) # get_base_name(list[i].name)

\* the first entry of a BaseName fixes the key's place in the dict's order
FirstOfKey(list, i) ==
  \A j \in 1..(i - 1) :
     get_base_name(list[j].name) # get_base_name(list[i].name)

\* the value stored under the key first seen at position i
ValueOfKey(list, i) ==
  list[CHOOSE j \in i..Len(list) :
         /\ get_base_name(list[j].name) = get_base_name(list[i].name)
         /\ DictKeeps(list, j)]

\* tltndirlist_set
BaseNameSet(list) == {get_base_name(list[i].name) : i \in 1..Len(list)}

\* lines 262-264: the dict's values, in key order, whose key is a
\* thumbnail BaseName
RECURSIVE MatchingUpTo(_, _, _)
MatchingUpTo(videos, thumbs, n) ==
  IF n = 0 THEN <<>>
  ELSE LET rest == MatchingUpTo(videos, thumbs, n - 1) IN
       IF FirstOfKey(videos, n)
          /\ get_base_name(videos[n].name) \in BaseNameSet(thumbs)
       THEN Append(rest, ValueOfKey(videos, n))
       ELSE rest

\* a reconciliation in which the first entry of a BaseName wins
RECURSIVE MatchingFirstWins(_, _)
MatchingFirstWins(videos, thumbs) ==
  IF Len(videos) = 0 THEN <<>>
  ELSE LET n    == Len(videos)
           rest == MatchingFirstWins(SubSeq(videos, 1, n - 1), thumbs)
       IN  IF FirstOfKey(videos, n)
              /\ get_base_name(videos[n].name) \in BaseNameSet(thumbs)
           THEN Append(rest, videos[n])
           ELSE rest

matching_files_of(videos, thumbs) == MatchingUpTo(videos, thumbs, Len(videos))

\* ------------------------------------------------- the device's directories
\* One listing line: permissions, links, owner, group, size, month, day,
\* time-or-year, then the tokens of the name.
Line(links, size, month, day, time, nameTokens) ==
  << <<"-rw-rw-rw-">>, links, <<"root">>, <<"root">>, size, <<month>>, day, time >>
    \o nameTokens

\* the line a LIST reply opens with: fewer than 9 fields
TotalLine == << <<"total">>, <<"3">> >>

\* the files /timelapse may hold, in the server's listing order: a.avi,
\* a.mp4 (the BaseName of a.avi again, and old enough for the server to
\* show its year in place of its time), b.avi and a line whose size is not
\* an integer
DeviceVideoDir ==
  << Line(<<"1">>, <<"1","0","0","0">>, "Jan", <<"2">>, <<"1","0",":","0","0">>,
          << <<"a", ".", "avi">> >>),
     Line(<<"1">>, <<"3","0","0","0">>, "Jan", <<"1">>, <<"2","0","2","4">>,
          << <<"a", ".", "mp4">> >>),
     Line(<<"1">>, <<"2","0","0","0">>, "Jan", <<"3">>, <<"1","1",":","0","0">>,
          << <<"b", ".", "avi">> >>),
     Line(<<"1">>, <<"x">>, "Jan", <<"4">>, <<"1","2",":","0","0">>,
          << <<"c", ".", "avi">> >>) >>

\* the files /timelapse/thumbnail may hold: a.jpg, b.jpg and b.png (the
\* BaseName of b.jpg again)
DeviceThumbDir ==
  << Line(<<"1">>, <<"1","0">>, "Jan", <<"2">>, <<"1","0",":","0","0">>,
          << <<"a", ".", "jpg">> >>),
     Line(<<"1">>, <<"2","0">>, "Jan", <<"3">>, <<"1","1",":","0","0">>,
          << <<"b", ".", "jpg">> >>),
     Line(<<"1">>, <<"2","5">>, "Jan", <<"3">>, <<"1","1",":","0","0">>,
          << <<"b", ".", "png">> >>) >>

\* the lines of dir at the positions of sel, in dir's order
RECURSIVE PickUpTo(_, _, _)
PickUpTo(dir, sel, n) ==
  IF n = 0 THEN <<>>
  ELSE IF n \in sel THEN Append(PickUpTo(dir, sel, n - 1), dir[n])
  ELSE PickUpTo(dir, sel, n - 1)

Pick(dir, sel) == PickUpTo(dir, sel, Len(dir))

\* the name a listing line shows (its 9th part), <<>> for a short line
LineName(line) == IF Len(Split8(line)) < 9 THEN <<>> ELSE Split8(line)[9]

\* DELE: the directory without the file of that name
RECURSIVE WithoutName(_, _)
WithoutName(dir, name) ==
  IF Len(dir) = 0 THEN <<>>
  ELSE LET rest == WithoutName(SubSeq(dir, 1, Len(dir) - 1), name) IN
       IF LineName(dir[Len(dir)]) = name THEN rest
       ELSE Append(rest, dir[Len(dir)])

\* ------------------------------------------------------- local file names
\* os.path.join(out_dir, item["name"]): files are written flat into out_dir
local_filename_of(name) == name

\* os.path.splitext(path)[0]: the extension starts at the last dot, unless
\* only dots come before it
splitext_root(path) ==
  LET d == LastDot(path, Len(path)) IN
  IF d = 0 \/ (\A i \in 1..(d - 1) : path[i] = ".") THEN path
  ELSE SubSeq(path, 1, d - 1)

\* line 363
streamable_filename_of(local) == splitext_root(local) \o <<"_streamable", ".", "mp4">>

VideoNames == {LineName(DeviceVideoDir[i]) : i \in 1..Len(DeviceVideoDir)} \ {<<>>}

LocalPaths ==
  {local_filename_of(n) : n \in VideoNames}
    \cup {streamable_filename_of(local_filename_of(n)) : n \in VideoNames}

\* ---------------------------------------------------------------- state
VARIABLES
  args,               \* the parsed command line (lines 147-160)
  config,             \* config.json: telegram is TRUE when token and channel are set
  remote_timelapse,   \* the raw lines of /timelapse on the device
  remote_thumbnail,   \* the raw lines of /timelapse/thumbnail on the device
  disk,               \* the files of out_dir: absent, partial or complete
  pc,                 \* where main / download_and_process stands
  ftp,                \* the session object of the running cycle
  tldirlist,          \* the parsed video listing of the cycle
  tltndirlist,        \* the parsed thumbnail listing of the cycle
  matching_files,     \* line 264, sorted by line 270
  files_to_download,  \* line 271
  idx,                \* position of the for loop of line 279
  loc,                \* the loop body's local variables for the current file
  ret,                \* what download_and_process returns: "none" while it runs
  cycles,             \* cycles started so far
  hist,               \* what the running cycle has done
  fh,                 \* what the running loop iteration has done to its file
  ever                \* what the run has done over all its cycles

vars == <<args, config, remote_timelapse, remote_thumbnail, disk, pc, ftp,
          tldirlist, tltndirlist, matching_files, files_to_download, idx, loc,
          ret, cycles, hist, fh, ever>>

\* the loop body's locals before a file is taken up
NoLocals ==
  [duration |-> 0, short_file_skipped |-> FALSE,
   should_delete_remote_file |-> TRUE, deleted_video_successfully |-> FALSE,
   streamable_filename |-> <<>>, upload_filename |-> <<>>,
   upload_success |-> FALSE]

\* nothing done yet in this cycle
NoHist ==
  [abort |-> "none",       \* why the cycle returned before or within its loop
   lists |-> <<>>,         \* the directories listed, in order
   dl_try |-> <<>>,        \* the names whose download was attempted, in order
   dl_ok |-> {},           \* the names whose download completed
   waited |-> 0]           \* the seconds main slept after the cycle returned

\* nothing done yet to the current file
NoFileHist ==
  [dl |-> "none",          \* the download: none, ok or failed
   probe |-> "none",       \* the duration probe: none, ok or failed
   short |-> FALSE,        \* classified short
   del_decided |-> FALSE,  \* lines 321-336 ran
   del_try |-> 0,          \* remote video deletes attempted
   del_ok |-> FALSE,       \* the remote video delete succeeded
   tn_try |-> <<>>,        \* the thumbnail names a delete was attempted for
   tc_try |-> FALSE,       \* handed to ffmpeg
   tc_failed |-> FALSE,    \* the transcode raised
   oversized |-> FALSE,    \* the artifact was larger than the limit
   sent |-> <<>>,          \* the local paths sent to Telegram
   uploaded |-> FALSE,     \* the upload succeeded
   removed |-> {}]         \* the local paths the cleanup removed

Init ==
  /\ args \in [all : BOOLEAN, do_not_delete : BOOLEAN, watch : BOOLEAN,
               no_make_streamable : BOOLEAN, keep_after_upload : BOOLEAN]
  /\ config \in [telegram : BOOLEAN]
  /\ \E sel \in SUBSET (1..Len(DeviceVideoDir)) :
        /\ Cardinality(sel) <= MaxVideos
        /\ remote_timelapse = <<TotalLine>> \o Pick(DeviceVideoDir, sel)
  /\ \E sel \in SUBSET (1..Len(DeviceThumbDir)) :
        \* the thumbnails of one BaseName are on the device together
        /\ \A i \in sel : \A j \in 1..Len(DeviceThumbDir) :
              get_base_name(LineName(DeviceThumbDir[i]))
                 = get_base_name(LineName(DeviceThumbDir[j])) => j \in sel
        /\ remote_thumbnail = <<TotalLine>> \o Pick(DeviceThumbDir, sel)
  /\ disk = [p \in LocalPaths |-> "absent"]
  /\ pc = "connect"
  /\ ftp = "none"
  /\ tldirlist = <<>>
  /\ tltndirlist = <<>>
  /\ matching_files = <<>>
  /\ files_to_download = <<>>
  /\ idx = 0
  /\ loc = NoLocals
  /\ ret = "none"
  /\ cycles = 0
  /\ hist = NoHist
  /\ fh = NoFileHist
  /\ ever = [deleted |-> {}, published |-> {}, republished |-> {}]

\* the current file of the loop
item == files_to_download[idx]

\* the return statements of lines 244, 247, 260, 268 and 434: the finally
\* block is what runs next
Return(h, value, why) ==
  /\ ret' = value
  /\ hist' = [h EXCEPT !.abort = why]
  /\ pc' = "close"

\* ------------------------------------------------------------- a cycle
\* lines 233-247: a new session object, connect, login, prot_p; a failure
\* of connect leaves the session without a socket, a failure of the
\* welcome, of login or of prot_p leaves it with the socket connect made
StartCycle(n) ==
  /\ pc = "connect"
  /\ cycles' = n
  /\ tldirlist' = <<>> /\ tltndirlist' = <<>>
  /\ matching_files' = <<>> /\ files_to_download' = <<>>
  /\ idx' = 0 /\ loc' = NoLocals /\ fh' = NoFileHist
  /\ \E ok \in BOOLEAN :
        IF ok
        THEN /\ ftp' = "open"
             /\ pc' = "list_videos"
             /\ ret' = "none"
             /\ hist' = NoHist
        ELSE /\ \E sock \in BOOLEAN : ftp' = IF sock THEN "open" ELSE "unconnected"
             /\ Return(NoHist, "False", "connect")
  /\ UNCHANGED <<args, config, remote_timelapse, remote_thumbnail, disk, ever>>

\* a cycle that is counted
Connect == cycles < MaxCycles /\ StartCycle(cycles + 1)

\* line 458: while True has no bound; a cycle of watch mode that is not
\* counted
ConnectAgain == args.watch /\ StartCycle(cycles)

\* lines 252-254: LIST /timelapse and its parse; a ValueError of the parse
\* is caught at line 432
ListVideos ==
  /\ pc = "list_videos"
  /\ \E ok \in BOOLEAN :
        IF ~ok THEN Return(hist, "False", "listing") /\ UNCHANGED tldirlist
        ELSE LET parsed == ParseListing(remote_timelapse)
                 h      == [hist EXCEPT !.lists = Append(@, "timelapse")]
             IN
             IF parsed.raised THEN Return(h, "False", "exception") /\ UNCHANGED tldirlist
             ELSE /\ tldirlist' = parsed.items
                  /\ pc' = "list_thumbs"
                  /\ hist' = h
                  /\ UNCHANGED ret
  /\ UNCHANGED <<args, config, remote_timelapse, remote_thumbnail, disk, ftp,
                 tltndirlist, matching_files, files_to_download, idx, loc,
                 cycles, fh, ever>>

\* a selection that takes every eligible file whatever the option says
select_files_everything(sorted, all) == sorted

\* line 271
select_files(sorted, all) == IF all THEN sorted ELSE <<sorted[1]>>

\* lines 255-271: LIST /timelapse/thumbnail, its parse, the reconciliation,
\* the sort and the selection
ListThumbs ==
  /\ pc = "list_thumbs"
  /\ \E ok \in BOOLEAN :
        IF ~ok
        THEN /\ Return(hist, "False", "listing")
             /\ UNCHANGED <<tltndirlist, matching_files, files_to_download, idx>>
        ELSE LET parsed == ParseListing(remote_thumbnail)
                 match  == matching_files_of(tldirlist, parsed.items)
                 h      == [hist EXCEPT !.lists = Append(@, "thumbnail")]
             IN
             IF parsed.raised
             THEN /\ Return(h, "False", "exception")
                  /\ UNCHANGED <<tltndirlist, matching_files, files_to_download, idx>>
             ELSE IF match = <<>>
             THEN /\ Return(h, "False", "nomatch")
                  /\ tltndirlist' = parsed.items
                  /\ UNCHANGED <<matching_files, files_to_download, idx>>
             ELSE /\ tltndirlist' = parsed.items
                  /\ matching_files' = SortDesc(match)
                  /\ files_to_download' = select_files(SortDesc(match), args.all)
                  /\ idx' = 1
                  /\ pc' = "download"
                  /\ hist' = h
                  /\ UNCHANGED ret
  /\ UNCHANGED <<args, config, remote_timelapse, remote_thumbnail, disk, ftp,
                 tldirlist, loc, cycles, fh, ever>>

\* a failed download that ends the cycle instead
on_download_error_abort == "abort"

\* lines 296 and 300: what a failed download does to the loop
on_download_error == "continue"

\* lines 279-300: RETR into a freshly truncated local file
Download ==
  /\ pc = "download"
  /\ LET name  == item.name
         local == local_filename_of(name)
         h     == [hist EXCEPT !.dl_try = Append(@, name)]
         hok   == [h EXCEPT !.dl_ok = @ \cup {name}]
     IN \E res \in {"ok", "transfer_error", "open_error"} :
          /\ disk' = IF res = "ok" THEN [disk EXCEPT ![local] = "complete"]
                     ELSE IF res = "transfer_error" THEN [disk EXCEPT ![local] = "partial"]
                     ELSE disk
          /\ fh' = [fh EXCEPT !.dl = IF res = "ok" THEN "ok" ELSE "failed"]
          /\ IF res = "ok"
             THEN hist' = hok /\ pc' = "probe" /\ UNCHANGED ret
             ELSE IF on_download_error = "continue"
             THEN hist' = h /\ pc' = "continue" /\ UNCHANGED ret
             ELSE Return(h, "False", "download")
  /\ UNCHANGED <<args, config, remote_timelapse, remote_thumbnail, ftp, tldirlist,
                 tltndirlist, matching_files, files_to_download, idx, loc, cycles,
                 ever>>

\* durations are counted in tenths of a second
MinDuration == 10
DurationUnknown == 9990

\* what ffprobe may print: 0.5 s, 1.0 s, or nothing float() accepts (-1)
ProbeOutputs == {5, 10, -1}

\* the probe failed: ffprobe did not run, or printed nothing float() accepts
probe_failed(out) == out < 0

\* a probe whose failure gives the 0 of line 307
get_video_duration_zero(out) == IF out < 0 THEN 0 ELSE out

\* lines 109-118
get_video_duration(out) == IF probe_failed(out) THEN DurationUnknown ELSE out

\* a threshold that classifies nothing as short
IsShort_never(duration) == duration < 0

\* line 309
IsShort(duration) == duration < MinDuration

\* a decision that does not look at --do-not-delete
should_delete_remote_always(do_not_delete) == TRUE

\* a decision that never deletes
should_delete_remote_never(do_not_delete) == FALSE

\* lines 281, 312 and 321-323
should_delete_remote(do_not_delete) == ~do_not_delete

\* lines 302-323: the duration probe, the short classification and the
\* decision whether the remote video is to be deleted
Probe ==
  /\ pc = "probe"
  /\ \E out \in ProbeOutputs :
        LET duration == get_video_duration(out) IN
        /\ loc' = [loc EXCEPT
                     !.duration = duration,
                     !.short_file_skipped = IsShort(duration),
                     !.should_delete_remote_file =
                        should_delete_remote(args.do_not_delete)]
        /\ fh' = [fh EXCEPT !.probe = IF probe_failed(out) THEN "failed" ELSE "ok",
                            !.short = IsShort(duration)]
  /\ pc' = "delete_video"
  /\ UNCHANGED <<args, config, remote_timelapse, remote_thumbnail, disk, ftp,
                 tldirlist, tltndirlist, matching_files, files_to_download, idx,
                 ret, cycles, hist, ever>>

\* lines 326-336: DELE of the remote video
DeleteVideo ==
  /\ pc = "delete_video"
  /\ LET name == item.name IN
     IF loc.should_delete_remote_file
     THEN \E ok \in BOOLEAN :
            /\ loc' = [loc EXCEPT !.deleted_video_successfully = ok]
            /\ remote_timelapse' =
                 IF ok THEN WithoutName(remote_timelapse, name) ELSE remote_timelapse
            /\ fh' = [fh EXCEPT !.del_decided = TRUE, !.del_try = @ + 1, !.del_ok = ok]
            /\ ever' = IF ok THEN [ever EXCEPT !.deleted = @ \cup {name}] ELSE ever
     ELSE /\ loc' = [loc EXCEPT !.deleted_video_successfully = FALSE]
          /\ fh' = [fh EXCEPT !.del_decided = TRUE]
          /\ UNCHANGED <<remote_timelapse, ever>>
  /\ pc' = "delete_thumb"
  /\ UNCHANGED <<args, config, remote_thumbnail, disk, ftp, tldirlist, tltndirlist,
                 matching_files, files_to_download, idx, ret, cycles, hist>>

\* a thumbnail delete that does not look at the video delete's result
thumbnail_delete_always(deleted_video_successfully) == TRUE

\* line 338
thumbnail_delete_wanted(deleted_video_successfully) == deleted_video_successfully

\* a lookup without the break of line 344: the last entry of that BaseName
thumbnail_to_delete_last(thumbs, base) ==
  IF \E i \in 1..Len(thumbs) : get_base_name(thumbs[i].name) = base
  THEN thumbs[CHOOSE i \in 1..Len(thumbs) :
                /\ get_base_name(thumbs[i].name) = base
                /\ \A j \in (i + 1)..Len(thumbs) : get_base_name(thumbs[j].name) # base].name
  ELSE <<>>

\* lines 340-344: the first thumbnail entry of that BaseName, <<>> for None
thumbnail_to_delete(thumbs, base) ==
  IF \E i \in 1..Len(thumbs) : get_base_name(thumbs[i].name) = base
  THEN thumbs[CHOOSE i \in 1..Len(thumbs) :
                /\ get_base_name(thumbs[i].name) = base
                /\ \A j \in 1..(i - 1) : get_base_name(thumbs[j].name) # base].name
  ELSE <<>>

\* lines 338-357: DELE of the thumbnail, then the continue of a short file
DeleteThumb ==
  /\ pc = "delete_thumb"
  /\ LET tn == thumbnail_to_delete(tltndirlist, get_base_name(item.name)) IN
     IF thumbnail_delete_wanted(loc.deleted_video_successfully) /\ tn # <<>>
     THEN \E ok \in BOOLEAN :
            /\ remote_thumbnail' =
                 IF ok THEN WithoutName(remote_thumbnail, tn) ELSE remote_thumbnail
            /\ fh' = [fh EXCEPT !.tn_try = Append(@, tn)]
     ELSE UNCHANGED <<remote_thumbnail, fh>>
  /\ pc' = IF loc.short_file_skipped THEN "continue" ELSE "transcode"
  /\ UNCHANGED <<args, config, remote_timelapse, disk, ftp, tldirlist, tltndirlist,
                 matching_files, files_to_download, idx, loc, ret, cycles, hist, ever>>

\* line 393: 49 MB
max_telegram_size == 49 * 1024 * 1024

\* sizes the artifact may come out at: below, at and above the limit
ArtifactSizes == {max_telegram_size - 1, max_telegram_size, max_telegram_size + 1}

\* line 395
too_large(file_size) == file_size > max_telegram_size

\* lines 360 and 395-406: the file handed to the upload after the transcode
\* step; upload_filename is set to the original at line 360 and only the
\* else branch of line 400 replaces it
upload_filename_after(local, streamable, made, file_size) ==
  IF made /\ ~too_large(file_size) THEN streamable ELSE local

\* lines 398-406: streamable_filename after the transcode step, <<>> for None
streamable_filename_after(streamable, made, file_size) ==
  IF made /\ ~too_large(file_size) THEN streamable ELSE <<>>

\* lines 359-406: ffprobe and ffmpeg make the streamable artifact
Transcode ==
  /\ pc = "transcode"
  /\ LET local      == local_filename_of(item.name)
         streamable == streamable_filename_of(local)
     IN IF args.no_make_streamable
        THEN /\ loc' = [loc EXCEPT !.streamable_filename = <<>>,
                                   !.upload_filename = local]
             /\ UNCHANGED <<disk, fh>>
        ELSE \/ \E file_size \in ArtifactSizes :
                  /\ disk' = [disk EXCEPT ![streamable] = "complete"]
                  /\ loc' = [loc EXCEPT
                       !.streamable_filename =
                          streamable_filename_after(streamable, TRUE, file_size),
                       !.upload_filename =
                          upload_filename_after(local, streamable, TRUE, file_size)]
                  /\ fh' = [fh EXCEPT !.tc_try = TRUE,
                                      !.oversized = too_large(file_size)]
             \/ \E wrote \in BOOLEAN :
                  \* ffprobe or ffmpeg failed, before or after ffmpeg opened its output
                  /\ disk' = IF wrote THEN [disk EXCEPT ![streamable] = "partial"] ELSE disk
                  /\ loc' = [loc EXCEPT
                       !.streamable_filename =
                          streamable_filename_after(streamable, FALSE, 0),
                       !.upload_filename =
                          upload_filename_after(local, streamable, FALSE, 0)]
                  /\ fh' = [fh EXCEPT !.tc_try = TRUE, !.tc_failed = TRUE]
  /\ pc' = "publish"
  /\ UNCHANGED <<args, config, remote_timelapse, remote_thumbnail, ftp, tldirlist,
                 tltndirlist, matching_files, files_to_download, idx, ret, cycles,
                 hist, ever>>

\* lines 120-144: try_telegram_upload up to the send: FALSE when the upload
\* is skipped for want of a token or channel, or the file is missing
upload_is_sent(telegram, file_state) == telegram /\ file_state # "absent"

\* lines 408-415: the upload of upload_filename
Publish ==
  /\ pc = "publish"
  /\ LET name == item.name IN
     IF loc.upload_filename = <<>>
     THEN UNCHANGED <<loc, fh, ever>>
     ELSE IF ~upload_is_sent(config.telegram, disk[loc.upload_filename])
     THEN /\ loc' = [loc EXCEPT !.upload_success = FALSE]
          /\ UNCHANGED <<fh, ever>>
     ELSE \E res \in {"sent", "TelegramError", "Exception"} :
            /\ loc' = [loc EXCEPT !.upload_success = (res = "sent")]
            /\ fh' = [fh EXCEPT !.sent = Append(@, loc.upload_filename),
                                !.uploaded = (res = "sent")]
            /\ ever' = IF res = "sent"
                       THEN [ever EXCEPT
                               !.published = @ \cup {name},
                               !.republished =
                                  IF name \in ever.published THEN @ \cup {name} ELSE @]
                       ELSE ever
  /\ pc' = "cleanup"
  /\ UNCHANGED <<args, config, remote_timelapse, remote_thumbnail, disk, ftp,
                 tldirlist, tltndirlist, matching_files, files_to_download, idx,
                 ret, cycles, hist>>

\* a cleanup that does not look at the upload's result
cleanup_without_upload(upload_success, keep_after_upload) == ~keep_after_upload

\* a cleanup that does not look at keep-after-upload
cleanup_ignoring_keep(upload_success, keep_after_upload) == upload_success

\* lines 418-419
cleanup_wanted(upload_success, keep_after_upload) ==
  upload_success /\ ~keep_after_upload

\* lines 417-427: os.remove of the artifact and of the original; an error
\* of either remove ends the cleanup
Cleanup ==
  /\ pc = "cleanup"
  /\ LET local == local_filename_of(item.name)
         s     == loc.streamable_filename
         rm_s  == s # <<>> /\ disk[s] # "absent"
         rm_l  == disk[local] # "absent"
     IN IF cleanup_wanted(loc.upload_success, args.keep_after_upload)
        THEN \E res \in {"ok", "first_remove_fails", "second_remove_fails"} :
               LET gone == IF res = "ok"
                           THEN (IF rm_s THEN {s} ELSE {}) \cup (IF rm_l THEN {local} ELSE {})
                           ELSE IF res = "second_remove_fails" /\ rm_s /\ rm_l
                           THEN {s}
                           ELSE {}
               IN /\ disk' = [q \in LocalPaths |-> IF q \in gone THEN "absent" ELSE disk[q]]
                  /\ fh' = [fh EXCEPT !.removed = gone]
        ELSE UNCHANGED <<disk, fh>>
  /\ pc' = "continue"
  /\ UNCHANGED <<args, config, remote_timelapse, remote_thumbnail, ftp, tldirlist,
                 tltndirlist, matching_files, files_to_download, idx, loc, ret,
                 cycles, hist, ever>>

\* the continue statements of the loop and its normal end: the next file,
\* or past the loop to the finally block and the return True of line 454
Continue ==
  /\ pc = "continue"
  /\ loc' = NoLocals
  /\ fh' = NoFileHist
  /\ IF idx < Len(files_to_download)
     THEN idx' = idx + 1 /\ pc' = "download" /\ ret' = ret
     ELSE idx' = idx /\ pc' = "close" /\ ret' = "True"
  /\ UNCHANGED <<args, config, remote_timelapse, remote_thumbnail, disk, ftp,
                 tldirlist, tltndirlist, matching_files, files_to_download,
                 cycles, hist, ever>>

\* a finally block that leaves the session as it finds it
session_after_finally_leaked(session) == session

\* lines 436-453: a session with a socket is quit, and closed by
\* ftp.close() when quit raised before its own close, so it is closed
\* whatever quit did; a session without a socket is left alone
session_after_finally(session) == IF session = "open" THEN "closed" ELSE session

\* what ftp.quit() of line 439 may do: return, or raise one or the other
QuitOutcomes == {"ok", "all_errors", "Exception"}

\* lines 443-446 and 450-453: every all_errors and Exception of quit and of
\* close is caught
finally_raises(quit) == FALSE

\* lines 435-453: the finally block quits and closes the session
Close ==
  /\ pc = "close"
  /\ ftp' = session_after_finally(ftp)
  /\ pc' = IF \E quit \in QuitOutcomes : finally_raises(quit)
           THEN "raised" ELSE "returned"
  /\ UNCHANGED <<args, config, remote_timelapse, remote_thumbnail, disk, tldirlist,
                 tltndirlist, matching_files, files_to_download, idx, loc, ret,
                 cycles, hist, fh, ever>>

\* lines 462-466: single-shot mode drops what the cycle returned and main
\* returns, so the interpreter ends with status 0
exit_status(returned) == 0

\* a watch loop that never sleeps
wait_never(processed_files) == FALSE

\* line 460: if not processed_files
wait_before_next_cycle(processed_files) == processed_files # "True"

\* line 461
sleep_seconds == 60

\* lines 456-466: watch mode sleeps after a cycle that returned False and
\* starts the next one at once otherwise; single-shot mode ends
MainLoop ==
  /\ pc = "returned"
  /\ pc' = IF ~args.watch THEN "exit"
           ELSE IF wait_before_next_cycle(ret) THEN "sleep"
           ELSE "connect"
  /\ UNCHANGED <<args, config, remote_timelapse, remote_thumbnail, disk, ftp,
                 tldirlist, tltndirlist, matching_files, files_to_download, idx,
                 loc, ret, cycles, hist, fh, ever>>

\* line 461: time.sleep(60)
Sleep ==
  /\ pc = "sleep"
  /\ hist' = [hist EXCEPT !.waited = @ + sleep_seconds]
  /\ pc' = "connect"
  /\ UNCHANGED <<args, config, remote_timelapse, remote_thumbnail, disk, ftp,
                 tldirlist, tltndirlist, matching_files, files_to_download, idx,
                 loc, ret, cycles, fh, ever>>

Next ==
  \/ Connect
  \/ ListVideos
  \/ ListThumbs
  \/ Download
  \/ Probe
  \/ DeleteVideo
  \/ DeleteThumb
  \/ Transcode
  \/ Publish
  \/ Cleanup
  \/ Continue
  \/ Close
  \/ MainLoop
  \/ Sleep

Spec == Init /\ [][Next]_vars

\* watch mode with its unbounded loop, in the latest-only selection and
\* without the streamable artifact, which nothing of the loop's control
\* reads: over an unbounded number of cycles the artifacts left in out_dir
\* multiply the states by six
WatchInit == Init /\ args.watch /\ ~args.all /\ args.no_make_streamable

\* the steps of Next, with no bound on the number of cycles
WatchNext ==
  \/ ConnectAgain
  \/ ListVideos
  \/ ListThumbs
  \/ Download
  \/ Probe
  \/ DeleteVideo
  \/ DeleteThumb
  \/ Transcode
  \/ Publish
  \/ Cleanup
  \/ Continue
  \/ Close
  \/ MainLoop
  \/ Sleep

\* main is one sequential process: a step that can be taken is taken, as
\* every call of the cycle returns (the FTP calls have the timeout of line
\* 240, time.sleep(60) ends)
WatchSpec == WatchInit /\ [][WatchNext]_vars /\ WF_vars(WatchNext)

\* ------------------------------------------------------------ properties
Range(seq) == {seq[i] : i \in 1..Len(seq)}

\* the local paths of the current file: the original and the artifact
cur_local == local_filename_of(item.name)
cur_streamable == streamable_filename_of(cur_local)

\* the positions of the loop body after the duration probe
AfterProbe == {"delete_video", "delete_thumb", "transcode", "publish", "cleanup", "continue"}

\* the positions after the loop body's remote deletes
AfterDeletes == {"transcode", "publish", "cleanup", "continue"}

\* the positions at which a cycle has returned and hist still tells of it
CycleOver ==
  pc \in {"close", "returned", "sleep", "exit"} \/ (pc = "connect" /\ cycles > 0)

\* C1 (as claimed): a file whose artifact is larger than the 49 MB limit is
\* never sent to Publish in that cycle, neither as the artifact nor as the
\* original, and both files are on disk when its loop iteration ends.
C1_OversizedNeverPublished ==
  fh.oversized =>
    /\ fh.sent = <<>>
    /\ pc = "continue" =>
         disk[cur_local] = "complete" /\ disk[cur_streamable] = "complete"

\* C2 (as claimed): when the transcode of a file fails, Publish is not
\* invoked for it and its original local file is not deleted in that cycle.
C2_TranscodeFailureSkipsPublish ==
  fh.tc_failed =>
    /\ fh.sent = <<>>
    /\ cur_local \notin fh.removed
    /\ disk[cur_local] = "complete"

\* C3: a thumbnail delete is attempted for a file if and only if the delete
\* of its remote video was attempted and succeeded before it in the same
\* loop iteration: at most one, never after a failed download, a failed or
\* skipped video delete, and always once the video delete has succeeded.
C3_ThumbnailIffVideoDeleted ==
  /\ fh.tn_try # <<>> =>
       /\ fh.del_try = 1 /\ fh.del_ok
       /\ fh.dl = "ok" /\ ~args.do_not_delete
       /\ Len(fh.tn_try) = 1
       /\ get_base_name(fh.tn_try[1]) = get_base_name(item.name)
  /\ (pc \in AfterDeletes /\ fh.del_ok) => fh.tn_try # <<>>

\* C3 witness: a thumbnail delete was attempted after a successful video delete
C3_Witness == pc = "continue" /\ fh.del_ok /\ Len(fh.tn_try) = 1

\* C3 witness of the other side is a failed video delete with no thumbnail delete
C3_WitnessFailedDelete ==
  pc = "continue" /\ fh.del_try = 1 /\ ~fh.del_ok /\ fh.tn_try = <<>>

\* C4: over all cycles, every file whose remote video has been deleted has
\* a complete local copy on disk or has been published; a remote video
\* delete is only issued after a completed download, and the local
\* original is only removed after a successful upload.
C4_DeletedRemoteKeptOrPublished ==
  /\ \A n \in ever.deleted :
        disk[local_filename_of(n)] = "complete" \/ n \in ever.published
  /\ fh.del_try > 0 => fh.dl = "ok"
  /\ fh.removed # {} => fh.uploaded

\* C4 witness: a remote video is gone and so is its local copy, in a later
\* cycle than the first
C4_Witness ==
  /\ cycles = 2
  /\ \E n \in ever.deleted : disk[local_filename_of(n)] = "absent"

\* C5 (as claimed): over all cycles of watch mode no file is published a
\* second time.
C5_PublishedAtMostOnce == ever.republished = {}

\* C6: a file whose probed duration is below the threshold never reaches
\* Transcode or Publish, whatever the flags; its local file stays complete
\* on disk, and the remote delete decision is taken for it: the delete is
\* attempted exactly when do-not-delete is not set.
C6_ShortFileGated ==
  (pc \in AfterProbe /\ fh.dl = "ok" /\ loc.duration < MinDuration) =>
    /\ pc \in {"delete_video", "delete_thumb", "continue"}
    /\ ~fh.tc_try
    /\ fh.sent = <<>>
    /\ fh.removed = {}
    /\ disk[cur_local] = "complete"
    /\ pc \in {"delete_thumb", "continue"} =>
         /\ fh.del_decided
         /\ fh.del_try = (IF args.do_not_delete THEN 0 ELSE 1)

\* C6 witness: a short file's iteration ends with transcode and upload
\* enabled and its remote video deleted
C6_Witness ==
  /\ pc = "continue" /\ loc.duration < MinDuration /\ fh.dl = "ok"
  /\ ~args.no_make_streamable /\ config.telegram /\ fh.del_ok

\* the names of the cycle's selection, in loop order
SelectedNames == [i \in 1..Len(files_to_download) |-> files_to_download[i].name]

\* C7: once connection and both listings have succeeded, no per-file
\* failure keeps a later file of the selection from being attempted: a
\* cycle that is over has attempted the download of every selected file, in
\* order; a cycle ends early only for a failed connection or listing (or an
\* empty selection), and then it has attempted no download.
C7_LaterFilesStillAttempted ==
  /\ hist.abort \in {"none", "connect", "listing", "exception", "nomatch"}
  /\ hist.abort # "none" => hist.dl_try = <<>> /\ files_to_download = <<>>
  /\ (CycleOver /\ hist.abort = "none" /\ cycles > 0) => hist.dl_try = SelectedNames
  /\ pc \in AfterProbe \cup {"download", "probe"} =>
       hist.dl_try = SubSeq(SelectedNames, 1, IF pc = "download" THEN idx - 1 ELSE idx)

\* C7 witness: the first of two selected files failed its download and the
\* second was attempted all the same
C7_Witness ==
  /\ CycleOver /\ Len(hist.dl_try) = 2
  /\ disk[local_filename_of(hist.dl_try[1])] = "partial"
  /\ disk[local_filename_of(hist.dl_try[2])] = "complete"

\* C8: a local file is removed only when the upload of its file was sent in
\* the same loop iteration and succeeded and keep-after-upload is not set,
\* and only the file's own original and artifact; otherwise the downloaded
\* original and the finished artifact are on disk when the iteration ends.
C8_LocalFilesKeptUnlessPublished ==
  /\ fh.removed # {} =>
       /\ fh.uploaded /\ fh.sent # <<>> /\ config.telegram
       /\ ~args.keep_after_upload
       /\ fh.removed \subseteq {cur_local, cur_streamable}
  /\ (pc = "continue" /\ fh.dl = "ok" /\ ~(fh.uploaded /\ ~args.keep_after_upload)) =>
       /\ disk[cur_local] = "complete"
       /\ (fh.tc_try /\ ~fh.tc_failed) => disk[cur_streamable] = "complete"

\* C8 witness: a successful upload was followed by the removal of both files
C8_Witness ==
  pc = "continue" /\ fh.uploaded /\ fh.removed = {cur_local, cur_streamable}

\* C8 witness of the other side: the upload failed and both files stayed
C8_WitnessFailedUpload ==
  /\ pc = "continue" /\ fh.sent # <<>> /\ ~fh.uploaded /\ ~args.keep_after_upload
  /\ disk[cur_local] = "complete" /\ disk[cur_streamable] = "complete"

\* a line of 9 or more fields whose links or size field is no integer
HasNonIntegerField(line) ==
  /\ Len(Split8(line)) >= 9
  /\ ~IsInt(Split8(line)[2]) \/ ~IsInt(Split8(line)[5])

\* C9 (as claimed): a listing line of 9 or more fields whose size or link
\* count is not an integer parses to None without raising, so a cycle
\* whose listings were retrieved never ends on an exception of the parse.
C9_MalformedLineDropped ==
  /\ hist.abort # "exception"
  /\ \A i \in 1..Len(remote_timelapse) :
        (hist.lists # <<>> /\ HasNonIntegerField(remote_timelapse[i]))
           => parse_ftp_listing(remote_timelapse[i]) = None

\* the video entries whose BaseName is the BaseName of some thumbnail entry
WithThumbnail ==
  {tldirlist[i] : i \in {k \in 1..Len(tldirlist) :
      get_base_name(tldirlist[k].name) \in
         {get_base_name(tltndirlist[j].name) : j \in 1..Len(tltndirlist)}}}

\* the entries of WithThumbnail that no later entry of the video listing
\* shares its BaseName with
LastWithThumbnail ==
  {tldirlist[i] : i \in {k \in 1..Len(tldirlist) :
      /\ tldirlist[k] \in WithThumbnail
      /\ \A j \in (k + 1)..Len(tldirlist) :
            get_base_name(tldirlist[j].name) # get_base_name(tldirlist[k].name)}}

\* the reconciliation of this cycle has just run: its results stay as they
\* are until the next cycle
Reconciled ==
  /\ Len(hist.lists) = 2 /\ hist.abort \in {"none", "nomatch"}
  /\ pc \in {"download", "close"} /\ hist.dl_try = <<>>

\* C10 (as claimed): the eligible set is exactly the set of video entries
\* whose BaseName is a thumbnail BaseName, also when several video entries
\* share a BaseName.
C10_EligibleIsEveryVideoWithThumbnail ==
  Reconciled => Range(matching_files) = WithThumbnail

\* C10 (amended): the eligible set is exactly the set of video entries
\* whose BaseName is a thumbnail BaseName and that are the last entry of
\* their BaseName in the video listing, each once; it is empty, and no
\* download is attempted, when no video has a matching thumbnail.
C10_EligibleIsLastVideoWithThumbnail ==
  Reconciled =>
    /\ Range(matching_files) = LastWithThumbnail
    /\ Len(matching_files) = Cardinality(LastWithThumbnail)
    /\ WithThumbnail = {} <=> hist.abort = "nomatch"
    /\ WithThumbnail = {} => hist.dl_try = <<>> /\ files_to_download = <<>>

\* C10 witness: two video entries share a BaseName that has a thumbnail
C10_Witness ==
  /\ Reconciled /\ pc = "download"
  /\ Cardinality(WithThumbnail) = 2 /\ Len(matching_files) = 1

\* C10 witness of the empty side: no video has a matching thumbnail
C10_WitnessNoMatch ==
  Reconciled /\ Len(tldirlist) > 0 /\ Len(tltndirlist) > 0 /\ WithThumbnail = {}

\* the position of a video entry in the cycle's video listing
ListingPos(entry) == CHOOSE k \in 1..Len(tldirlist) : tldirlist[k] = entry

\* C11: the eligible files are in descending order of their resolved
\* modification time, and every entry whose date does not resolve comes
\* after every entry whose date resolves; the selection starts with the
\* first of them.
C11_NewestFirstUnresolvedLast ==
  (Reconciled /\ pc = "download") =>
    /\ \A i \in 1..Len(matching_files) : \A j \in (i + 1)..Len(matching_files) :
          /\ parse_date(matching_files[i]) = None
                => parse_date(matching_files[j]) = None
          /\ (parse_date(matching_files[i]) # None
                /\ parse_date(matching_files[j]) # None)
                => parse_date(matching_files[i]).stamp
                     >= parse_date(matching_files[j]).stamp
    /\ files_to_download[1] = matching_files[1]

\* C11 witness: the listing shows an entry whose date does not resolve
\* before one whose date resolves, and the order puts it last
C11_Witness ==
  /\ Reconciled /\ pc = "download" /\ Len(matching_files) = 2
  /\ parse_date(matching_files[1]) # None
  /\ parse_date(matching_files[2]) = None
  /\ ListingPos(matching_files[2]) < ListingPos(matching_files[1])

\* C11 witness of the resolved side: the listing shows the older of two
\* dated entries first, and the order puts the newer first
C11_WitnessResolved ==
  /\ Reconciled /\ pc = "download" /\ Len(matching_files) = 2
  /\ parse_date(matching_files[2]) # None
  /\ parse_date(matching_files[1]).stamp > parse_date(matching_files[2]).stamp
  /\ ListingPos(matching_files[2]) < ListingPos(matching_files[1])

\* the names of the ordered eligible sequence
EligibleNames == [i \in 1..Len(matching_files) |-> matching_files[i].name]

\* the names the device still holds in /timelapse
RemoteVideoNames == {LineName(remote_timelapse[i]) : i \in 1..Len(remote_timelapse)}

\* both listings of the running cycle have been parsed
BothListed == Len(hist.lists) = 2 /\ hist.abort \in {"none", "nomatch"}

\* the listed videos whose BaseName no listed thumbnail has
WithoutThumbnail ==
  {tldirlist[k] : k \in {i \in 1..Len(tldirlist) :
      get_base_name(tldirlist[i].name) \notin BaseNameSet(tltndirlist)}}

\* C12 (stated where a loop iteration starts and where the cycle returns
\* to its finally block): without --all a cycle attempts the download of
\* exactly one file,
\* the first of the ordered eligible sequence; with --all it attempts each
\* eligible file exactly once, in the sequence's order; in both modes a
\* listed video without a matching thumbnail is neither downloaded nor
\* deleted: it is on the device and not on disk when a loop iteration and
\* when the cycle is over.
C12_SelectionAttemptedOnceInOrder ==
  /\ (pc \in {"download", "close"} /\ BothListed /\ hist.abort = "none") =>
       /\ ~args.all => SelectedNames = <<EligibleNames[1]>>
       /\ args.all => SelectedNames = EligibleNames
       /\ Len(hist.dl_try) <= Len(SelectedNames)
       /\ hist.dl_try = SubSeq(SelectedNames, 1, Len(hist.dl_try))
       /\ \A i \in 1..Len(hist.dl_try) : \A j \in (i + 1)..Len(hist.dl_try) :
             hist.dl_try[i] # hist.dl_try[j]
       /\ pc = "close" => hist.dl_try = SelectedNames
  /\ (pc \in {"continue", "close"} /\ BothListed) =>
       \A v \in WithoutThumbnail :
          /\ v.name \notin Range(hist.dl_try)
          /\ disk[local_filename_of(v.name)] = "absent"
          /\ v.name \in RemoteVideoNames
          /\ v.name \notin ever.deleted

\* C12 witness: two files are eligible, only the latest is wanted, and the
\* cycle is over after one download attempt
C12_Witness ==
  /\ CycleOver /\ BothListed /\ ~args.all
  /\ Len(matching_files) = 2 /\ hist.dl_try = <<matching_files[1].name>>

\* C12 witness of --all: both eligible files were attempted, newest first
C12_WitnessAll ==
  /\ CycleOver /\ BothListed /\ args.all
  /\ Len(matching_files) = 2 /\ hist.dl_try = EligibleNames

\* C12 witness of the video without thumbnail: it is still on the device
\* after the cycle deleted the video that has one
C12_WitnessNoThumbnail ==
  /\ CycleOver /\ BothListed /\ WithoutThumbnail # {}
  /\ \E n \in Range(hist.dl_try) : n \in ever.deleted

\* C13: with --do-not-delete no remote delete is issued, of a video or of
\* a thumbnail, in any cycle of a single-shot or a watch run, for a short
\* file and for any other: no loop iteration attempts one, and nothing
\* has ever been deleted.
C13_DoNotDeleteIssuesNoDelete ==
  args.do_not_delete =>
    /\ fh.del_try = 0 /\ ~fh.del_ok /\ fh.tn_try = <<>>
    /\ ~loc.deleted_video_successfully
    /\ ever.deleted = {}

\* C13 witness: a watch run's second cycle has taken a short file past
\* the place of the deletes
C13_Witness ==
  /\ args.do_not_delete /\ args.watch /\ cycles = 2
  /\ pc = "continue" /\ fh.dl = "ok" /\ fh.short /\ fh.del_decided

\* C13 witness of the other branch: a single-shot run has taken a file
\* that is not short past the place of the deletes
C13_WitnessNotShort ==
  /\ args.do_not_delete /\ ~args.watch
  /\ pc = "transcode" /\ fh.dl = "ok" /\ ~fh.short /\ fh.del_decided

\* the cycle that is over failed at the connection or at a listing
FailedBeforeFiles == hist.abort \in {"connect", "listing", "exception"}

\* the cycle that is over had eligible files and completed none of them
NothingCompleted == Len(matching_files) > 0 /\ hist.dl_ok = {}

\* C14 (as claimed): a single-shot run ends with a non-zero status when
\* its cycle failed at the connection or at a listing, and when at least
\* one file was eligible and none completed.
C14_SingleShotStatusTellsFailure ==
  (pc = "exit" /\ (FailedBeforeFiles \/ NothingCompleted))
     => exit_status(ret) # 0

\* C15 (as claimed): a single-shot run whose connection or listing failed
\* has tried the connection again before it ends: it does not end after
\* its first connection attempt.
C15_SingleShotRetriesConnection ==
  (pc = "exit" /\ FailedBeforeFiles) => cycles > 1

\* a watch run stands between two cycles: the last one has returned and
\* whatever wait follows it is over
NextCycleDue == args.watch /\ pc = "connect" /\ cycles > 0

\* C16: in watch mode a cycle that found no eligible file, or that failed
\* at the connection or at a listing, is followed by the wait of 60
\* seconds before the next cycle starts.
C16_IdleOrFailedCycleThenWait ==
  /\ (NextCycleDue /\ (FailedBeforeFiles \/ hist.abort = "nomatch"))
        => hist.waited = 60
  /\ (args.watch /\ pc \in {"returned", "sleep"}
        /\ (FailedBeforeFiles \/ hist.abort = "nomatch"))
        => ret = "False" /\ hist.waited = 0

\* C16 witness: a cycle that found nothing eligible has been waited for
C16_Witness == NextCycleDue /\ hist.abort = "nomatch" /\ hist.waited = 60

\* C16 witness of the failed connection
C16_WitnessConnect == NextCycleDue /\ hist.abort = "connect" /\ hist.waited = 60

\* C17 (as claimed): in watch mode the next cycle starts without the wait
\* only after a cycle that completed at least one file; a cycle in which
\* no download completed is followed by the wait.
C17_NoWaitOnlyAfterCompletedFile ==
  NextCycleDue =>
    /\ hist.waited = 0 => hist.dl_ok # {}
    /\ hist.dl_ok = {} => hist.waited = 60

\* no cycle is running: before the first, between two, or after the last
BetweenCycles == pc \in {"connect", "returned", "sleep", "exit"}

\* C18: the session a cycle opened is closed when the cycle is over,
\* whichever way it ended (failed connection, failed listing, an exception
\* of the listing parse, nothing eligible, the end of the loop); the
\* closing never raises, also for a session that never got its socket;
\* and no cycle starts while the session of the one before is open.
C18_SessionClosedAfterEveryCycle ==
  /\ BetweenCycles => ftp # "open"
  /\ (BetweenCycles /\ cycles > 0) =>
        /\ ftp \in {"closed", "unconnected"}
        /\ ftp = "unconnected" => hist.abort = "connect"
  /\ pc # "raised"

\* C18 witness: a cycle that ended on the exception of the listing parse
\* has closed its session
C18_Witness ==
  pc = "returned" /\ hist.abort = "exception" /\ ftp = "closed"

\* C18 witness of the session without socket: the finally block has run
C18_WitnessNeverConnected ==
  pc = "returned" /\ hist.abort = "connect" /\ ftp = "unconnected"

\* C18 witness of the session whose login failed: it is closed
C18_WitnessLoginFailed ==
  pc = "returned" /\ hist.abort = "connect" /\ ftp = "closed"

\* C18 witness of the normal end in watch mode: the second cycle is due
\* and the first one's session is closed
C18_WitnessNextCycle ==
  NextCycleDue /\ hist.abort = "none" /\ ftp = "closed" /\ cycles < MaxCycles

\* C19: without --do-not-delete the remote video delete is attempted
\* exactly once for every file whose download completed, short or not,
\* after the duration check and before the file's transcode and upload;
\* a failed video delete neither ends the cycle nor keeps a file that is
\* not short from its transcode and its upload.
C19_VideoDeleteOncePerDownloadedFile ==
  ~args.do_not_delete =>
    /\ fh.del_try <= 1
    /\ pc \in {"download", "probe", "delete_video"} => fh.del_try = 0
    /\ (pc \in {"delete_thumb"} \cup AfterDeletes /\ fh.dl = "ok") => fh.del_try = 1
    /\ fh.dl # "ok" => fh.del_try = 0
    /\ (fh.tc_try \/ fh.sent # <<>> \/ loc.upload_filename # <<>>) => fh.del_try = 1
    /\ (fh.del_try = 1 /\ ~fh.del_ok) =>
          /\ hist.abort = "none" /\ ret # "False"
          /\ fh.tn_try = <<>>
          /\ (pc = "continue" /\ ~fh.short) =>
                /\ loc.upload_filename # <<>>
                /\ ~args.no_make_streamable => fh.tc_try
                /\ config.telegram => fh.sent # <<>>

\* C19 witness: the delete of a file that is not short failed, and the
\* file was transcoded and sent all the same
C19_Witness ==
  /\ ~args.do_not_delete /\ pc = "continue" /\ fh.dl = "ok" /\ ~fh.short
  /\ fh.del_try = 1 /\ ~fh.del_ok /\ fh.tc_try /\ fh.uploaded

\* C19 witness of the short branch: the delete was attempted once
C19_WitnessShort ==
  /\ ~args.do_not_delete /\ pc = "continue" /\ fh.dl = "ok" /\ fh.short
  /\ fh.del_try = 1 /\ fh.del_ok

\* C19 witness of the cycle going on: the first file's delete failed and
\* the second file's delete was attempted
C19_WitnessNextFile ==
  /\ ~args.do_not_delete /\ idx = 2 /\ fh.del_try = 1
  /\ hist.dl_try[1] \in RemoteVideoNames /\ hist.dl_try[1] \in hist.dl_ok

\* the positions of the loop body of lines 279-427
InLoop == {"download", "probe"} \cup AfterProbe

\* the positions in the cycle's thumbnail listing of the entries that have
\* the BaseName of the current file
ThumbnailPositions ==
  {k \in 1..Len(tltndirlist) :
      get_base_name(tltndirlist[k].name) = get_base_name(item.name)}

\* C20: a cycle lists /timelapse and then /timelapse/thumbnail, each once
\* and both before its first download, and lists nothing once the work on
\* the files has begun; the thumbnail whose delete has just been attempted
\* for a video is the first entry of the video's BaseName in the thumbnail
\* listing of the cycle, and for every selected file there is such an
\* entry.
C20_ListedOnceThumbnailFromListing ==
  /\ Len(hist.lists) <= 2
  /\ Len(hist.lists) >= 1 => hist.lists[1] = "timelapse"
  /\ Len(hist.lists) = 2 => hist.lists[2] = "thumbnail"
  /\ (pc \in InLoop \/ hist.dl_try # <<>>) => Len(hist.lists) = 2
  /\ (CycleOver /\ cycles > 0 /\ hist.abort \in {"none", "nomatch"})
        => Len(hist.lists) = 2
  /\ pc = "download" => ThumbnailPositions # {}
  /\ (fh.tn_try # <<>> /\ (pc = "transcode" \/ (pc = "continue" /\ fh.short))) =>
        fh.tn_try = <<tltndirlist[CHOOSE k \in ThumbnailPositions :
                                    \A j \in ThumbnailPositions : k <= j].name>>
  /\ (fh.del_ok /\ pc \in AfterDeletes) => fh.tn_try # <<>>

\* C20 witness: the listing has two thumbnails of the video's BaseName and
\* the delete of the first was attempted
C20_Witness ==
  /\ pc \in AfterDeletes /\ fh.del_ok /\ Len(fh.tn_try) = 1
  /\ Cardinality(ThumbnailPositions) = 2

\* C20 witness of the listing that is not fetched again: the second file
\* of the cycle has its thumbnail looked up after the first file's deletes
C20_WitnessSecondFile ==
  /\ pc \in AfterDeletes /\ idx = 2 /\ Len(fh.tn_try) = 1
  /\ hist.dl_try[1] \in ever.deleted /\ hist.lists = <<"timelapse", "thumbnail">>


\* C21: a failure of the duration probe never aborts the cycle or skips the
\* file: the duration is the default 999.0, the file is not short, and it
\* goes on to the remote-delete decision, the transcode and the upload as a
\* file of a valid duration above the threshold does
C21_ProbeFailureMeansLong ==
  fh.probe = "failed" =>
    /\ pc \in AfterProbe
    /\ hist.abort = "none" /\ ret = "none"
    /\ loc.duration = DurationUnknown
    /\ ~IsShort(loc.duration) /\ ~loc.short_file_skipped /\ ~fh.short
    /\ pc # "delete_video" =>
         /\ fh.del_decided
         /\ fh.del_try = (IF args.do_not_delete THEN 0 ELSE 1)
    /\ pc \in {"publish", "cleanup", "continue"} =>
         /\ fh.tc_try = ~args.no_make_streamable
         /\ loc.upload_filename # <<>>
    /\ pc = "cleanup" =>
         (fh.sent = <<loc.upload_filename>>)
            = upload_is_sent(config.telegram, disk[loc.upload_filename])

\* C21 witness: a file whose probe failed ends its iteration deleted on the
\* device, transcoded and uploaded
C21_Witness ==
  /\ pc = "continue" /\ fh.probe = "failed"
  /\ fh.del_ok /\ fh.tc_try /\ ~fh.tc_failed /\ fh.uploaded

\* C21 witness: the same with --do-not-delete and --no-make-streamable
C21_WitnessPlain ==
  /\ pc = "continue" /\ fh.probe = "failed"
  /\ args.do_not_delete /\ args.no_make_streamable /\ fh.uploaded


\* a cycle has just started: the first step of download_and_process is taken
CycleStarted == pc = "list_videos" \/ (pc = "close" /\ hist.abort = "connect")

\* the names of the eligible videos of the running cycle
EligibleNameSet == {matching_files[i].name : i \in 1..Len(matching_files)}

\* no connection, listing, download or remote video delete has failed in
\* the running cycle
NothingFailed ==
  /\ hist.abort \in {"none", "nomatch"}
  /\ fh.dl # "failed"
  /\ fh.del_try > 0 => fh.del_ok

\* C22: watch mode never terminates on its own, and after every cycle,
\* whatever it returned, another cycle eventually starts; with the
\* latest-only selection and deletion enabled, when no connection, listing,
\* download or remote video delete fails, every video that is eligible at
\* some cycle is eventually downloaded, one per cycle, and main waits only
\* after a cycle that found no eligible video
C22_WatchRunsOnAndDrains ==
  /\ [](pc \notin {"exit", "raised"})
  /\ (pc = "returned") ~> CycleStarted
  /\ (~args.all /\ ~args.do_not_delete /\ []NothingFailed) =>
        /\ \A n \in VideoNames : (n \in EligibleNameSet) ~> (n \in hist.dl_ok)
        /\ [](Len(hist.dl_try) <= 1)
        /\ [](pc = "sleep" => hist.abort = "nomatch")

\* C22 witness: a later cycle of the backlog has downloaded a video after
\* an earlier cycle deleted another one on the device
C22_Witness ==
  /\ args.watch /\ ~args.all /\ ~args.do_not_delete
  /\ NothingFailed /\ pc = "probe"
  /\ ever.deleted # {} /\ hist.dl_ok # {} /\ hist.dl_ok \cap ever.deleted = {}

\* C22 witness: the backlog is drained and main waits
C22_WitnessDrained ==
  /\ args.watch /\ ~args.do_not_delete /\ pc = "sleep"
  /\ hist.abort = "nomatch" /\ Cardinality(ever.deleted) = 2

====
